---------------------------- MODULE Spec2Model ----------------------------
(***************************************************************************)
(* Frost Risks integration: custom_components/frost_risks/sensor.py and    *)
(* const.py.                                                               *)
(*                                                                         *)
(* Numbers.  The source computes in IEEE doubles.  Here every real number  *)
(* x is the integer x * S (S = 10^5, five decimals), and math.exp,        *)
(* math.log, math.atan, math.sqrt and math.pow are fixed-point routines    *)
(* correct to about 10^-5.  A derived value can therefore differ from the  *)
(* source's in its last printed decimal; branch structure, evaluation      *)
(* order, error conditions and rounding steps are those of the source.     *)
(* All integer intermediates stay below 2^31.                              *)
(***************************************************************************)
EXTENDS Integers, Sequences, FiniteSets, TLC

S == 10 ^ 5

Abs(x) == IF x < 0 THEN -x ELSE x
Sgn(x) == IF x < 0 THEN -1 ELSE 1
Max2(x, y) == IF x >= y THEN x ELSE y
Min2(x, y) == IF x <= y THEN x ELSE y

(***************************************************************************)
(* <<floor(a*b/c), a*b mod c>> for a, b >= 0 and c > 0, within the         *)
(* 32-bit integers: directly where a*b fits, else by splitting a as        *)
(* (a \div K)*K + a % K for the largest K with K*(b + c) in range.         *)
(* With K*b = qK*c + rK and (a \div K)*rK = q1*c + r1,                     *)
(*     a*b = ((a \div K)*qK + q1)*c + r1 + (a % K)*b.                      *)
(***************************************************************************)
MulDivJoin(h, q0, t0, c) == <<q0 + h[1] + ((h[2] + t0) \div c), (h[2] + t0) % c>>

RECURSIVE MulDivQR(_, _, _)
MulDivChunk(a, b, c, K) ==
    MulDivJoin(MulDivQR(a \div K, (K * b) % c, c),
               (a \div K) * ((K * b) \div c), (a % K) * b, c)

MulDivQR(a, b, c) ==
    IF b = 0 \/ a <= 2147483647 \div b THEN <<(a * b) \div c, (a * b) % c>>
    ELSE MulDivChunk(a, b, c, 2147483647 \div (b + c))

(* The quotient of qr = <<q, r>> rounded to nearest. *)
RoundQuotient(qr, c) == IF 2 * qr[2] >= c THEN qr[1] + 1 ELSE qr[1]

(* a*b/c rounded to nearest, for a, b >= 0 and c > 0. *)
MulDivR(a, b, c) == RoundQuotient(MulDivQR(a, b, c), c)

(* x*y/z rounded to nearest, signed (z # 0). *)
MulDivS(x, y, z) == Sgn(x) * Sgn(y) * Sgn(z) * MulDivR(Abs(x), Abs(y), Abs(z))

(* Float product and quotient of two scaled numbers. *)
Mul(x, y) == MulDivS(x, y, S)
Div(x, y) == MulDivS(x, S, y)

(***************************************************************************)
(* The math library the source calls, in fixed point.                      *)
(***************************************************************************)
Pow2(k) == 2 ^ k

(* floor(log2 n) for 1 <= n < 2^31; 0 below 1 *)
Log2Floor(n) == IF n < 2 THEN 0 ELSE CHOOSE k \in 1 .. 30 : n \div Pow2(k) = 1

(* k * ln 2 *)
LnTwoTimes(k) == MulDivS(k, 6931472, 100)

(* sum of term, term*r/k, term*r^2/(k(k+1)), ... : the exponential series *)
RECURSIVE ExpTerms(_, _, _)
ExpTerms(r, term, k) ==
    IF term = 0 \/ k > 16 THEN 0
    ELSE term + ExpTerms(r, MulDivS(term, r, S * k), k + 1)

(* e * 2^k *)
TimesPow2(e, k) == IF k >= 0 THEN e * Pow2(k) ELSE MulDivS(e, 1, Pow2(-k))

(* e^(k ln 2 + r) *)
ExpSplit(x, k) == TimesPow2(ExpTerms(x - LnTwoTimes(k), S, 1), k)

(* e^x = 2^k * e^r with x = k ln 2 + r, |r| <= (ln 2)/2; 0 below e^-20. *)
Exp(x) == IF x <= -20 * S THEN 0 ELSE ExpSplit(x, (x + 34657) \div 69315)

(* z + z^3/3 + z^5/5 + ... = atanh z, for |z| <= 1/3 *)
RECURSIVE AtanhTerms(_, _, _)
AtanhTerms(zz, pw, k) ==
    IF pw = 0 \/ k > 31 THEN 0
    ELSE MulDivS(pw, 1, k) + AtanhTerms(zz, Mul(pw, zz), k + 2)

(* 2 atanh z *)
TwiceAtanh(z) == 2 * AtanhTerms(Mul(z, z), z, 1)

(* ln m = 2 atanh((m-1)/(m+1)) for a mantissa m in [1, 2) *)
LnMant(m) == TwiceAtanh(Div(m - S, m + S))

(* the mantissa of the integer n > 0: n / 2^floor(log2 n), in [1, 2) *)
Mant(n) == MulDivR(n, S, Pow2(Log2Floor(n)))

(* ln(n/d) for integers n, d > 0 *)
Ln(n, d) ==
    LnTwoTimes(Log2Floor(n) - Log2Floor(d)) + LnMant(Mant(n)) - LnMant(Mant(d))

(* x - x^3/3 + x^5/5 - ... for |x| <= tan(pi/8) *)
RECURSIVE AtanTerms(_, _, _)
AtanTerms(xx, pw, k) ==
    IF pw = 0 \/ k > 41 THEN 0
    ELSE MulDivS(pw, 1, k) - AtanTerms(xx, Mul(pw, xx), k + 2)

AtanSmall(x) == AtanTerms(Mul(x, x), x, 1)

(* atan on [0, 1]: above tan(pi/8), pi/4 + atan((x-1)/(x+1)) *)
AtanUnit(x) ==
    (IF x <= 41421 THEN 0 ELSE 78540)
    + AtanSmall(IF x <= 41421 THEN x ELSE Div(x - S, x + S))

(* atan on a >= 0: above 1, pi/2 - atan(1/a) *)
AtanPos(a) ==
    IF a <= S THEN AtanUnit(a) ELSE 157080 - AtanUnit(Div(S, a))

(* math.atan *)
Atan(x) == Sgn(x) * AtanPos(Abs(x))

(* Newton's iteration for the square root *)
RECURSIVE SqrtIter(_, _, _, _)
SqrtIter(x, y, y2, n) ==
    IF n = 0 \/ y2 = y THEN y
    ELSE SqrtIter(x, y2, (y2 + Div(x, y2)) \div 2, n - 1)

(* math.sqrt, for x >= 0 *)
Sqrt(x) == IF x = 0 THEN 0 ELSE SqrtIter(x, 0, Max2(x, S), 40)

(* round(x, 2): nearest multiple of 0.01. *)
Round2(x) == Sgn(x) * (((Abs(x) + (S \div 200)) \div (S \div 100)) * (S \div 100))

(***************************************************************************)
(* Results of a call: a value, or the exception that left the call.        *)
(* ValueError is math.log's "math domain error", ZeroDivisionError a float *)
(* division by zero, OverflowError math.exp's "math range error".          *)
(***************************************************************************)
Ok(v) == [err |-> "none", v |-> v]
Raise(e) == [err |-> e, v |-> 0]
IsOk(r) == r.err = "none"

(* A faulty variant of MathLog: the argument is first cut to the five decimals   *)
(* of the fixed scale, so a tiny positive argument counts as 0.            *)
MathLogCoarse(n, d) == IF MulDivS(n, S, d) <= 0 THEN Raise("ValueError") ELSE Ok(Ln(n, d))

(* math.log(n/d) for d > 0: raises ValueError unless the argument is > 0. *)
MathLog(n, d) == IF n <= 0 THEN Raise("ValueError") ELSE Ok(Ln(n, d))

(* math.exp(x): raises OverflowError above the largest double. *)
MathExp(x) == IF x > 709 * S THEN Raise("OverflowError") ELSE Ok(Exp(x))

(* 6.112 * e for the result e of math.exp *)
TimesBasePressure(ex) == IF ~IsOk(ex) THEN ex ELSE Ok(Mul(611200, ex.v))

(* es = 6.112 * math.exp((17.67 * T) / (243.5 + T)), as both             *)
(* _compute_absolute_humidity and _compute_vapor_pressure evaluate it.     *)
SaturationPressure(temperature) ==
    IF 24350000 + temperature = 0 THEN Raise("ZeroDivisionError")
    ELSE TimesBasePressure(
             MathExp(Div(Mul(1767000, temperature), 24350000 + temperature)))

(* lines 206-209, from the value es of line 205 *)
AbsoluteHumidityFrom(es, abs_temp, humidity) ==
    IF ~IsOk(es) THEN es
    ELSE IF abs_temp = 0 THEN Raise("ZeroDivisionError")
    ELSE Ok(Round2(Div(Mul(MulDivS(es.v, humidity, 100 * S), 216740), abs_temp)))

(* _compute_absolute_humidity *)
ComputeAbsoluteHumidity(temperature, humidity) ==
    AbsoluteHumidityFrom(SaturationPressure(temperature), temperature + 27315000,
                         humidity)

(* line 226 and its like, line 249: (b * alpha) / (a - alpha), rounded *)
MagnusInverse(a, b, alpha) ==
    IF a - alpha = 0 THEN Raise("ZeroDivisionError")
    ELSE Ok(Round2(Div(Mul(b, alpha), a - alpha)))

(* lines 225-228 and their like, 248-250, from the result lg of math.log *)
MagnusFromLog(a, b, temperature, lg) ==
    IF ~IsOk(lg) THEN lg
    ELSE MagnusInverse(a, b, Div(Mul(a, temperature), b + temperature) + lg.v)

(* A faulty variant of ComputeDewPoint: a humidity below 0.01 is replaced by     *)
(* 0.01 before the logarithm.                                              *)
ComputeDewPointSubstituted(temperature, humidity) ==
    IF 23770000 + temperature = 0 THEN Raise("ZeroDivisionError")
    ELSE MagnusFromLog(1727000, 23770000, temperature,
                       Ok(Ln(Max2(humidity, 1000), 100 * S)))

(* _compute_dew_point: a = 17.27, b = 237.7 *)
ComputeDewPoint(temperature, humidity) ==
    IF 23770000 + temperature = 0 THEN Raise("ZeroDivisionError")
    ELSE MagnusFromLog(1727000, 23770000, temperature, MathLog(humidity, 100 * S))

(* A faulty variant of FrostPointUsesIce: a dew point of 0 counts as below 0. *)
FrostPointUsesIceAtZero(dew_point) == dew_point <= 0

(* The test of line 244: the ice saturation formula is taken. *)
FrostPointUsesIce(dew_point) == dew_point < 0

(* lines 246-250: the ice saturation formula, a = 21.875, b = 265.5 *)
IceFrostPoint(temperature, humidity) ==
    IF 26550000 + temperature = 0 THEN Raise("ZeroDivisionError")
    ELSE MagnusFromLog(2187500, 26550000, temperature, MathLog(humidity, 100 * S))

(* lines 244-252, from the result dp of line 242 *)
FrostPointFrom(dp, temperature, humidity) ==
    IF ~IsOk(dp) THEN dp
    ELSE IF FrostPointUsesIce(dp.v) THEN IceFrostPoint(temperature, humidity)
    ELSE Ok(Round2(dp.v))

(* _compute_frost_point *)
ComputeFrostPoint(temperature, humidity) ==
    FrostPointFrom(ComputeDewPoint(temperature, humidity), temperature, humidity)

(* lines 268-272, from the denominator of line 269 *)
FreezingPointOver(den, Td, T) ==
    IF den = 0 THEN Raise("ZeroDivisionError")
    ELSE Ok(Round2(((Td + Div(267102000, den)) - T) - 27315000))

(* lines 268-272, from the result lg of math.log(T) *)
FreezingPointFromLog(lg, Td, T) ==
    IF ~IsOk(lg) THEN lg
    ELSE FreezingPointOver(Div(295461000, T) + MulDivS(lg.v, 2193665, 10 ^ 6)
                           - 1334480, Td, T)

(* lines 265-272, from the result dp of line 264 *)
FreezingPointFrom(dp, T) ==
    IF ~IsOk(dp) THEN dp
    ELSE IF T = 0 THEN Raise("ZeroDivisionError")
    ELSE FreezingPointFromLog(MathLog(T, S), dp.v + 27315000, T)

(* _compute_freezing_point *)
ComputeFreezingPoint(temperature, humidity) ==
    FreezingPointFrom(ComputeDewPoint(temperature, humidity), temperature + 27315000)

(* line 288: max(0.0, min(100.0, humidity)) *)
ClampHumidity(humidity) == Max2(0, Min2(100 * S, humidity))

(* A faulty variant of WetBulbShortCut: 0.5 for 5.0. *)
WetBulbShortCutTypo(RH) == RH < S \div 2

(* The test of line 291: the low-humidity short cut is taken. *)
WetBulbShortCut(RH) == RH < 5 * S

(* lines 295-301: Stull's formula *)
Stull(T, RH) ==
    Mul(T, Atan(MulDivS(Sqrt(RH + 831366), 151977, 10 ^ 6)))
    + Atan(T + RH)
    - Atan(RH - 167633)
    + Mul(MulDivS(Mul(RH, Sqrt(RH)), 391838, 10 ^ 8), Atan(MulDivS(RH, 23101, 10 ^ 6)))
    - 468604

(* lines 291-303, from the clamped humidity of line 288 *)
WetBulbFrom(T, RH) ==
    IF WetBulbShortCut(RH) THEN Ok(Round2(T - 50000))
    ELSE Ok(Round2(Stull(T, RH)))

(* _compute_wet_bulb_temperature *)
ComputeWetBulbTemperature(temperature, humidity) ==
    WetBulbFrom(temperature, ClampHumidity(humidity))

(* lines 318-320, from the value es of line 316 *)
VaporPressureFrom(es, humidity) ==
    IF ~IsOk(es) THEN es
    ELSE Ok(Round2(MulDivS(es.v, humidity, 100 * S)))

(* _compute_vapor_pressure *)
ComputeVaporPressure(temperature, humidity) ==
    VaporPressureFrom(SaturationPressure(temperature), humidity)

(* lines 335-340, from the result e of line 333; P = 1013.25.  The value   *)
(* is round(W, 6) in units of 10^-6.                                       *)
HumidityRatioFrom(e, P) ==
    IF ~IsOk(e) THEN e
    ELSE IF P - e.v = 0 THEN Raise("ZeroDivisionError")
    ELSE Ok(MulDivS(622000, e.v, P - e.v))

(* _compute_humidity_ratio *)
ComputeHumidityRatio(temperature, humidity) ==
    HumidityRatioFrom(ComputeVaporPressure(temperature, humidity), 101325000)

(***************************************************************************)
(* The rule table of _compute_frost_risk_level, lines 366-414: five        *)
(* ladders applied in turn to risk_level, then the clamp.                  *)
(***************************************************************************)
(* lines 369-379 *)
TemperatureRisk(risk_level, temperature) ==
    IF temperature <= -5 * S THEN Max2(risk_level, 5)
    ELSE IF temperature <= -2 * S THEN Max2(risk_level, 4)
    ELSE IF temperature <= 0 THEN Max2(risk_level, 3)
    ELSE IF temperature <= 2 * S THEN Max2(risk_level, 2)
    ELSE IF temperature <= 4 * S THEN Max2(risk_level, 1)
    ELSE risk_level

(* A faulty variant of DewPointRisk: its top step gives 5. *)
DewPointRiskTopped(risk_level, dew_point) ==
    IF dew_point <= -5 * S THEN Max2(risk_level, 5)
    ELSE IF dew_point <= -2 * S THEN Max2(risk_level, 3)
    ELSE IF dew_point <= 0 THEN Max2(risk_level, 2)
    ELSE IF dew_point <= 2 * S THEN Max2(risk_level, 1)
    ELSE risk_level

(* lines 381-389 *)
DewPointRisk(risk_level, dew_point) ==
    IF dew_point <= -5 * S THEN Max2(risk_level, 4)
    ELSE IF dew_point <= -2 * S THEN Max2(risk_level, 3)
    ELSE IF dew_point <= 0 THEN Max2(risk_level, 2)
    ELSE IF dew_point <= 2 * S THEN Max2(risk_level, 1)
    ELSE risk_level

(* A faulty variant of WetBulbRisk: the conditions on the temperature are lost. *)
WetBulbRiskUnconditioned(risk_level, wet_bulb, temperature) ==
    IF wet_bulb <= 0 THEN Max2(risk_level, 4)
    ELSE IF wet_bulb <= S THEN Max2(risk_level, 3)
    ELSE risk_level

(* lines 391-395 *)
WetBulbRisk(risk_level, wet_bulb, temperature) ==
    IF wet_bulb <= 0 /\ temperature <= 2 * S THEN Max2(risk_level, 4)
    ELSE IF wet_bulb <= S /\ temperature <= 3 * S THEN Max2(risk_level, 3)
    ELSE risk_level

(* lines 397-403 *)
FreezingPointRisk(risk_level, freezing_point) ==
    IF freezing_point <= -2 * S THEN Max2(risk_level, 4)
    ELSE IF freezing_point <= 0 THEN Max2(risk_level, 3)
    ELSE IF freezing_point <= S THEN Max2(risk_level, 2)
    ELSE risk_level

(* A faulty variant of AbsHumidityRisk: a branch assigns its level instead of    *)
(* raising risk_level to it.                                               *)
AbsHumidityRiskAssigned(risk_level, abs_humidity, temperature, freezing_point) ==
    IF abs_humidity < 280000 /\ temperature <= S /\ freezing_point <= 0
    THEN 1
    ELSE IF abs_humidity >= 280000 /\ temperature <= 4 * S /\ freezing_point <= 50000
    THEN 2
    ELSE IF abs_humidity >= 280000 /\ temperature <= S /\ freezing_point <= 0
    THEN 3
    ELSE risk_level

(* A faulty variant of AbsHumidityRisk: the third test comes before the second. *)
AbsHumidityRiskReordered(risk_level, abs_humidity, temperature, freezing_point) ==
    IF abs_humidity < 280000 /\ temperature <= S /\ freezing_point <= 0
    THEN Max2(risk_level, 1)
    ELSE IF abs_humidity >= 280000 /\ temperature <= S /\ freezing_point <= 0
    THEN Max2(risk_level, 3)
    ELSE IF abs_humidity >= 280000 /\ temperature <= 4 * S /\ freezing_point <= 50000
    THEN Max2(risk_level, 2)
    ELSE risk_level

(* lines 405-411: the branch of the if/elif chain that is taken, 0 if none *)
AbsHumidityBranch(abs_humidity, temperature, freezing_point) ==
    IF abs_humidity < 280000 /\ temperature <= S /\ freezing_point <= 0
    THEN 1
    ELSE IF abs_humidity >= 280000 /\ temperature <= 4 * S /\ freezing_point <= 50000
    THEN 2
    ELSE IF abs_humidity >= 280000 /\ temperature <= S /\ freezing_point <= 0
    THEN 3
    ELSE 0

(* lines 405-411 *)
AbsHumidityRisk(risk_level, abs_humidity, temperature, freezing_point) ==
    IF abs_humidity < 280000 /\ temperature <= S /\ freezing_point <= 0
    THEN Max2(risk_level, 1)
    ELSE IF abs_humidity >= 280000 /\ temperature <= 4 * S /\ freezing_point <= 50000
    THEN Max2(risk_level, 2)
    ELSE IF abs_humidity >= 280000 /\ temperature <= S /\ freezing_point <= 0
    THEN Max2(risk_level, 3)
    ELSE risk_level

(* A faulty variant of RiskLevel: the ladders' verdicts are added up and the sum *)
(* is returned as it is.                                                   *)
RiskLevelSummed(temperature, dew_point, wet_bulb, freezing_point, abs_humidity) ==
    TemperatureRisk(0, temperature) + DewPointRisk(0, dew_point)
    + WetBulbRisk(0, wet_bulb, temperature) + FreezingPointRisk(0, freezing_point)
    + AbsHumidityRisk(0, abs_humidity, temperature, freezing_point)

(* lines 366-414 *)
RiskLevel(temperature, dew_point, wet_bulb, freezing_point, abs_humidity) ==
    Max2(0, Min2(5,
        AbsHumidityRisk(
            FreezingPointRisk(
                WetBulbRisk(
                    DewPointRisk(
                        TemperatureRisk(0, temperature),
                        dew_point),
                    wet_bulb, temperature),
                freezing_point),
            abs_humidity, temperature, freezing_point)))

(* lines 366-414 on the results of lines 361-364: the first exception    *)
(* leaves the call, else the rule table is applied.                        *)
FrostRiskLevelFrom(temperature, dew_point, wet_bulb, freezing_point, abs_humidity) ==
    IF ~IsOk(dew_point) THEN dew_point
    ELSE IF ~IsOk(wet_bulb) THEN wet_bulb
    ELSE IF ~IsOk(freezing_point) THEN freezing_point
    ELSE IF ~IsOk(abs_humidity) THEN abs_humidity
    ELSE Ok(RiskLevel(temperature, dew_point.v, wet_bulb.v, freezing_point.v,
                      abs_humidity.v))

(* _compute_frost_risk_level: the four quantities in the order of lines    *)
(* 361-364, then the rule table.                                           *)
ComputeFrostRiskLevel(temperature, humidity) ==
    FrostRiskLevelFrom(temperature,
                       ComputeDewPoint(temperature, humidity),
                       ComputeWetBulbTemperature(temperature, humidity),
                       ComputeFreezingPoint(temperature, humidity),
                       ComputeAbsoluteHumidity(temperature, humidity))

(***************************************************************************)
(* State.                                                                  *)
(*   sensor_type .. last_error   one FrostRisksSensor and the two source   *)
(*                               entities it reads (specification Spec)    *)
(*   table    an application of the rule table (specification SpecTable)   *)
(*   call     an application of one formula (specification SpecFormula)    *)
(***************************************************************************)
VARIABLES sensor_type, temp_state, humidity_state, temperature, humidity,
          native_value, phase, subscribed, pending, evaluated, last_error,
          table, call

sensorVars == <<sensor_type, temp_state, humidity_state, temperature, humidity,
                native_value, phase, subscribed, pending, evaluated, last_error>>
vars == <<sensor_type, temp_state, humidity_state, temperature, humidity,
          native_value, phase, subscribed, pending, evaluated, last_error,
          table, call>>

(* Python's None, and a present float. *)
None == [some |-> FALSE, v |-> 0]
Some(x) == [some |-> TRUE, v |-> x]

(***************************************************************************)
(* Bounds of the rule-table inputs: whole degrees from -TableLow to        *)
(* TableHigh, which lie on and on both sides of every threshold of the     *)
(* ladders (-5, -2, 0, 0.5, 1, 2, 3, 4).                                   *)
(***************************************************************************)
TableLow == 6
TableHigh == 5

TableDegrees == {d * S : d \in (-TableLow) .. TableHigh}
TableWetBulbs == {d * S : d \in (-1) .. 2}
TableAbsHumidities == {279000, 280000}

NoTable == [op |-> "idle", T |-> 0, dp |-> 0, wb |-> 0, fp |-> 0, ah |-> 0, level |-> 0]
NoCall == [fn |-> "idle", T |-> 0, RH |-> 0, res |-> Ok(0)]

SensorIdle ==
    /\ sensor_type = "frost_risk_level"
    /\ temp_state = [kind |-> "missing", v |-> 0]
    /\ humidity_state = [kind |-> "missing", v |-> 0]
    /\ temperature = None
    /\ humidity = None
    /\ native_value = None
    /\ phase = "created"
    /\ subscribed = FALSE
    /\ pending = 0
    /\ evaluated = FALSE
    /\ last_error = "none"

(* The rule table applied to the arguments held in a record. *)
TableLevel(t) == RiskLevel(t.T, t.dp, t.wb, t.fp, t.ah)

InitTable ==
    /\ SensorIdle
    /\ call = NoCall
    /\ \E T \in TableDegrees, dp \in TableDegrees, wb \in TableWetBulbs,
          fp \in TableDegrees, ah \in TableAbsHumidities :
           table = [op |-> "idle", T |-> T, dp |-> dp, wb |-> wb, fp |-> fp,
                    ah |-> ah, level |-> 0]

(* The rule table is applied to the arguments. *)
Classify ==
    /\ table.op = "idle"
    /\ table' = [table EXCEPT !.op = "classify", !.level = TableLevel(table)]
    /\ UNCHANGED <<sensorVars, call>>

(* One of T, dp, wb, fp is replaced by a smaller value, the others kept,   *)
(* and the rule table is applied again.                                    *)
Lower ==
    /\ table.op # "idle"
    /\ \E which \in {"T", "dp", "wb", "fp"} :
         \E x \in (IF which = "wb" THEN TableWetBulbs ELSE TableDegrees) :
           /\ x < table[which]
           /\ LET t == [table EXCEPT ![which] = x]
              IN  table' = [t EXCEPT !.op = "lower", !.level = TableLevel(t)]
    /\ UNCHANGED <<sensorVars, call>>

NextTable == Classify \/ Lower

SpecTable == InitTable /\ [][NextTable]_vars

(***************************************************************************)
(* The ladders as the specification states them (section 4.2).             *)
(***************************************************************************)
LadderT(T) ==
    IF T <= -5 * S THEN 5 ELSE IF T <= -2 * S THEN 4 ELSE IF T <= 0 THEN 3
    ELSE IF T <= 2 * S THEN 2 ELSE IF T <= 4 * S THEN 1 ELSE 0
LadderDp(dp) ==
    IF dp <= -5 * S THEN 4 ELSE IF dp <= -2 * S THEN 3 ELSE IF dp <= 0 THEN 2
    ELSE IF dp <= 2 * S THEN 1 ELSE 0
LadderWb(wb, T) ==
    IF wb <= 0 /\ T <= 2 * S THEN 4 ELSE IF wb <= S /\ T <= 3 * S THEN 3 ELSE 0
LadderFp(fp) ==
    IF fp <= -2 * S THEN 4 ELSE IF fp <= 0 THEN 3 ELSE IF fp <= S THEN 2 ELSE 0
LadderAh(ah, T, fp) ==
    IF ah < 280000 /\ T <= S /\ fp <= 0 THEN 1
    ELSE IF ah >= 280000 /\ T <= 4 * S /\ fp <= 50000 THEN 2
    ELSE IF ah >= 280000 /\ T <= S /\ fp <= 0 THEN 3
    ELSE 0
LadderSet(t) ==
    {LadderT(t.T), LadderDp(t.dp), LadderWb(t.wb, t.T), LadderFp(t.fp),
     LadderAh(t.ah, t.T, t.fp)}
MaxOf(set) == CHOOSE m \in set : \A x \in set : x <= m

(* C1: whenever the rule table has been applied, the level it returned is  *)
(* one of 0, 1, 2, 3, 4, 5.                                                *)
C1_LevelInRange == table.op # "idle" => table.level \in 0 .. 5

(* C1 witness: the table has returned the top level and, elsewhere, 0.     *)
C1_Witness == table.op = "classify" /\ table.level = 5 /\ table.dp > 2 * S

(* C2: the level the rule table returns is the maximum of the five         *)
(* ladders' verdicts, clamped into 0..5, so it is below no ladder's        *)
(* verdict.                                                                *)
C2_MaxOfLadders ==
    table.op # "idle" =>
        /\ table.level = Max2(0, Min2(5, MaxOf(LadderSet(table))))
        /\ \A l \in LadderSet(table) : table.level >= l

(* C2 witness: two ladders give different non-zero verdicts and the table  *)
(* returned the larger one, not their sum.                                 *)
C2_Witness ==
    /\ table.op = "classify"
    /\ LadderT(table.T) = 2
    /\ LadderFp(table.fp) = 3
    /\ table.level = 3

(* C3: replacing one of T, dp, wb, fp by a smaller value, the rest kept,   *)
(* never gives a lower level.                                              *)
C3_Monotone == [][table'.op = "lower" => table'.level >= table.level]_vars

(* C3 witness: a lowering step has raised the level past two ladders.      *)
C3_Witness == table.op = "lower" /\ table.level = 4 /\ table.T > 4 * S

(* C12: in the absolute-humidity ladder the third branch is never taken,   *)
(* because whatever satisfies its condition (ah >= 2.8, T <= 1, fp <= 0)   *)
(* satisfies the second branch's (ah >= 2.8, T <= 4, fp <= 0.5); the       *)
(* ladder raises the level to 0, 1 or 2 only.                              *)
C12_ThirdBranchDead ==
    table.op # "idle" =>
        /\ AbsHumidityBranch(table.ah, table.T, table.fp) # 3
        /\ (table.ah >= 280000 /\ table.T <= S /\ table.fp <= 0) =>
               (table.ah >= 280000 /\ table.T <= 4 * S /\ table.fp <= 50000)
        /\ AbsHumidityRisk(0, table.ah, table.T, table.fp) \in {0, 1, 2}

(* C12 witness: the third branch's condition holds and the second branch   *)
(* is the one taken.                                                       *)
C12_Witness ==
    /\ table.op = "classify"
    /\ table.ah >= 280000 /\ table.T <= S /\ table.fp <= 0
    /\ AbsHumidityBranch(table.ah, table.T, table.fp) = 2
    /\ AbsHumidityRisk(0, table.ah, table.T, table.fp) = 2

(* C13: the rule table returns 5 if and only if temperature <= -5; the     *)
(* dew-point, wet-bulb, freezing-point and absolute-humidity ladders raise  *)
(* the level to at most 4.                                                 *)
C13_FiveIffColdest ==
    table.op # "idle" =>
        /\ table.level = 5 <=> table.T <= -5 * S
        /\ DewPointRisk(0, table.dp) <= 4
        /\ WetBulbRisk(0, table.wb, table.T) <= 4
        /\ FreezingPointRisk(0, table.fp) <= 4
        /\ AbsHumidityRisk(0, table.ah, table.T, table.fp) <= 4

(* C13 witness: just above -5 degrees with the dew point, the wet bulb and *)
(* the freezing point at their top steps, the table returned 4.            *)
C13_Witness ==
    /\ table.op = "classify"
    /\ table.T = -4 * S
    /\ table.dp <= -5 * S
    /\ table.wb <= 0
    /\ table.fp <= -2 * S
    /\ table.level = 4

(***************************************************************************)
(* Specification SpecFormula: one formula applied to one reading.          *)
(* Temperatures: -237.7 (the zero of the dew point's denominator), frost,  *)
(* 0, a reading with three decimals, 10 and 20.  Humidities: below 0, 0,   *)
(* 0.0001, both sides of the wet-bulb short cut at 5, the humidity at      *)
(* which the dew point of 10 degrees is 0.00, ordinary ones, and one above *)
(* 100.                                                                    *)
(***************************************************************************)
Temps == {-23770000, -300000, 0, 500000, 512300, 1000000, 2000000}
Hums == {-1000000, 0, 10, 300000, 499000, 500000, 4980000, 5000000, 9000000,
         10000000, 12000000}

FormulaNames ==
    {"absolute_humidity", "dew_point", "frost_point", "freezing_point",
     "wet_bulb_temperature", "vapor_pressure", "humidity_ratio", "frost_risk_level"}

InitFormula ==
    /\ SensorIdle
    /\ table = NoTable
    /\ \E T \in Temps, RH \in Hums :
           call = [fn |-> "idle", T |-> T, RH |-> RH, res |-> Ok(0)]

Returned(fn, res) ==
    /\ call.fn = "idle"
    /\ call' = [call EXCEPT !.fn = fn, !.res = res]
    /\ UNCHANGED <<sensorVars, table>>

CallAbsoluteHumidity ==
    Returned("absolute_humidity", ComputeAbsoluteHumidity(call.T, call.RH))
CallDewPoint == Returned("dew_point", ComputeDewPoint(call.T, call.RH))
CallFrostPoint == Returned("frost_point", ComputeFrostPoint(call.T, call.RH))
CallFreezingPoint == Returned("freezing_point", ComputeFreezingPoint(call.T, call.RH))
CallWetBulb ==
    Returned("wet_bulb_temperature", ComputeWetBulbTemperature(call.T, call.RH))
CallVaporPressure == Returned("vapor_pressure", ComputeVaporPressure(call.T, call.RH))
CallHumidityRatio == Returned("humidity_ratio", ComputeHumidityRatio(call.T, call.RH))
CallFrostRiskLevel ==
    Returned("frost_risk_level", ComputeFrostRiskLevel(call.T, call.RH))

NextFormula ==
    \/ CallAbsoluteHumidity
    \/ CallDewPoint
    \/ CallFrostPoint
    \/ CallFreezingPoint
    \/ CallWetBulb
    \/ CallVaporPressure
    \/ CallHumidityRatio
    \/ CallFrostRiskLevel

SpecFormula == InitFormula /\ [][NextFormula]_vars

DewPointDependent == {"dew_point", "frost_point", "freezing_point", "frost_risk_level"}

(* C4: with a humidity <= 0 the dew point raises (math.log's domain error; *)
(* at the temperature -237.7 the division by zero that precedes the        *)
(* logarithm) and returns no number, and frost point, freezing point and   *)
(* frost risk level leave with that same exception.                        *)
C4_DomainErrorSurfaces ==
    (call.fn \in DewPointDependent /\ call.RH <= 0) =>
        /\ ~IsOk(call.res)
        /\ call.res.err = (IF call.T = -23770000 THEN "ZeroDivisionError"
                           ELSE "ValueError")
        /\ call.res = ComputeDewPoint(call.T, call.RH)

(* C4 witness: the risk level was asked for a humidity of 0 and raised.    *)
C4_Witness ==
    /\ call.fn = "frost_risk_level"
    /\ call.RH = 0
    /\ call.res.err = "ValueError"

(* C5 as stated: dew_point(20, 0.0001) fails with a domain error.          *)
C5_FailsAtTinyHumidity ==
    (call.fn = "dew_point" /\ call.T = 20 * S /\ call.RH = 10) => ~IsOk(call.res)

(* C5 amended: dew_point(20, 0.0001) raises nothing and returns -99.69.    *)
C5_ReturnsAtTinyHumidity ==
    (call.fn = "dew_point" /\ call.T = 20 * S /\ call.RH = 10) =>
        call.res = Ok(-9969000)

(* C5 witness: dew_point has been applied to (20, 0.0001).                 *)
C5_Witness == call.fn = "dew_point" /\ call.T = 20 * S /\ call.RH = 10

(* C6: for a humidity > 0, the frost point is the dew point whenever the   *)
(* (rounded) dew point is >= 0, and the value of the ice-phase formula     *)
(* only when the dew point is below 0.                                     *)
C6_FrostPointIsDewPoint ==
    (call.fn = "frost_point" /\ call.RH > 0) =>
        LET dp == ComputeDewPoint(call.T, call.RH)
        IN  IsOk(dp) =>
              /\ dp.v >= 0 => call.res = dp
              /\ dp.v < 0 => call.res = IceFrostPoint(call.T, call.RH)

(* C6 witness: the dew point is exactly 0.00, the ice-phase formula would  *)
(* give another value, and the frost point returned is the dew point.      *)
C6_Witness ==
    /\ call.fn = "frost_point"
    /\ call.RH > 0
    /\ ComputeDewPoint(call.T, call.RH) = Ok(0)
    /\ IceFrostPoint(call.T, call.RH) # Ok(0)
    /\ call.res = Ok(0)

(* C7 as stated: with the clamped humidity below 5.0 the wet bulb is       *)
(* T - 0.5.                                                                *)
C7_ShortCutExact ==
    (call.fn = "wet_bulb_temperature" /\ Max2(0, Min2(100 * S, call.RH)) < 5 * S) =>
        call.res = Ok(call.T - S \div 2)

(* C7 amended: with the clamped humidity below 5.0 the wet bulb raises     *)
(* nothing and is T - 0.5 rounded to two decimals: a multiple of 0.01 at   *)
(* most 0.005 from T - 0.5.  With the clamped humidity >= 5.0 it is the    *)
(* rounded value of Stull's formula at the clamped humidity.               *)
C7_ShortCutRounded ==
    call.fn = "wet_bulb_temperature" =>
        LET RH == Max2(0, Min2(100 * S, call.RH))
        IN  /\ IsOk(call.res)
            /\ call.res.v % (S \div 100) = 0
            /\ RH < 5 * S => Abs(call.res.v - (call.T - S \div 2)) <= S \div 200
            /\ RH >= 5 * S => Abs(call.res.v - Stull(call.T, RH)) <= S \div 200

(* C7 witness: a negative humidity and a temperature with three decimals.  *)
C7_Witness ==
    /\ call.fn = "wet_bulb_temperature"
    /\ call.RH < 0
    /\ call.T = 512300
    /\ call.res = Ok(462000)

(***************************************************************************)
(* Specification Spec: one FrostRisksSensor and its two source entities.   *)
(*                                                                         *)
(* A source entity's state in hass.states is missing (states.get returns   *)
(* None), "unknown", "unavailable", a text float() rejects, or a number.   *)
(* async_update contains no await, so it is one step.  The host runs       *)
(* async_update once before it adds the entity (async_add_entities(...,    *)
(* True)) and drops the entity if that raises; a scheduled forced update   *)
(* (async_schedule_update_ha_state(True)) is a later call of async_update. *)
(* native_value is a float scaled by S, except the humidity ratio's, which *)
(* is in units of 10^-6.                                                   *)
(***************************************************************************)
MaxPending == 2

SensorTypes == FormulaNames

SrcTemps == {-600000, 100000, 200000, 300000, 2000000}
SrcHums == {0, 5000000, 9000000}

Missing == [kind |-> "missing", v |-> 0]
SourceStates(numbers) ==
    {Missing, [kind |-> "unknown", v |-> 0], [kind |-> "unavailable", v |-> 0],
     [kind |-> "text", v |-> 0]} \cup {[kind |-> "num", v |-> x] : x \in numbers}

(* const.py, FROST_RISK_LEVELS keyed from 1: a faulty variant. *)
FrostRiskLevelsFromOne ==
    [l \in 1 .. 6 |->
        CASE l = 1 -> [en |-> "No Risk", nl |-> "Geen Risico"]
          [] l = 2 -> [en |-> "Very Low", nl |-> "Zeer Laag"]
          [] l = 3 -> [en |-> "Low", nl |-> "Laag"]
          [] l = 4 -> [en |-> "Moderate", nl |-> "Gemiddeld"]
          [] l = 5 -> [en |-> "High", nl |-> "Hoog"]
          [] l = 6 -> [en |-> "Very High", nl |-> "Zeer Hoog"]]

(* const.py, FROST_RISK_LEVELS *)
FROST_RISK_LEVELS ==
    [l \in 0 .. 5 |->
        CASE l = 0 -> [en |-> "No Risk", nl |-> "Geen Risico"]
          [] l = 1 -> [en |-> "Very Low", nl |-> "Zeer Laag"]
          [] l = 2 -> [en |-> "Low", nl |-> "Laag"]
          [] l = 3 -> [en |-> "Moderate", nl |-> "Gemiddeld"]
          [] l = 4 -> [en |-> "High", nl |-> "Hoog"]
          [] l = 5 -> [en |-> "Very High", nl |-> "Zeer Hoog"]]

(* float(state.state): the number, or ValueError *)
ParseFloat(st) == IF st.kind = "num" THEN Ok(st.v) ELSE Raise("ValueError")

(* A faulty variant of ReadSource: a text that does not parse reads as 0. *)
ReadSourceDefaulted(st) ==
    IF st.kind # "missing" /\ st.kind \notin {"unknown", "unavailable"}
    THEN (IF IsOk(ParseFloat(st)) THEN Some(ParseFloat(st).v) ELSE Some(0))
    ELSE None

(* lines 135-147 and 150-162: the reading async_update stores for a source *)
ReadSource(st) ==
    IF st.kind # "missing" /\ st.kind \notin {"unknown", "unavailable"}
    THEN (IF IsOk(ParseFloat(st)) THEN Some(ParseFloat(st).v) ELSE None)
    ELSE None

(* float(n) of an int, and int(x) of a float (towards zero) *)
FloatOfInt(n) == n * S
IntOfFloat(x) == Sgn(x) * (Abs(x) \div S)

(* The value r of a formula, as the float | None _calculate_value returns. *)
Returns(r) == IF IsOk(r) THEN Ok(Some(r.v)) ELSE r

(* line 190: float(level) of the classifier's result r *)
ReturnsFloat(r) == IF IsOk(r) THEN Ok(Some(FloatOfInt(r.v))) ELSE r

(* _calculate_value *)
CalculateValue(type, t, h) ==
    IF ~t.some \/ ~h.some THEN Ok(None)
    ELSE CASE type = "absolute_humidity" ->
                  Returns(ComputeAbsoluteHumidity(t.v, h.v))
           [] type = "dew_point" -> Returns(ComputeDewPoint(t.v, h.v))
           [] type = "frost_point" -> Returns(ComputeFrostPoint(t.v, h.v))
           [] type = "freezing_point" -> Returns(ComputeFreezingPoint(t.v, h.v))
           [] type = "wet_bulb_temperature" ->
                  Returns(ComputeWetBulbTemperature(t.v, h.v))
           [] type = "vapor_pressure" -> Returns(ComputeVaporPressure(t.v, h.v))
           [] type = "humidity_ratio" -> Returns(ComputeHumidityRatio(t.v, h.v))
           [] type = "frost_risk_level" ->
                  ReturnsFloat(ComputeFrostRiskLevel(t.v, h.v))
           [] OTHER -> Ok(None)

(* _calculate_value on every reading the sources can give, computed once *)
CalculatedValues ==
    [type \in SensorTypes, t \in SrcTemps, h \in SrcHums |->
        CalculateValue(type, Some(t), Some(h))]

(* A faulty variant of AsyncUpdate: a formula's exception resets the value. *)
AsyncUpdateResetting ==
    LET t == ReadSource(temp_state)
        h == ReadSource(humidity_state)
    IN  /\ temperature' = t
        /\ humidity' = h
        /\ IF t.some /\ h.some
           THEN LET r == CalculatedValues[sensor_type, t.v, h.v]
                IN  /\ evaluated' = TRUE
                    /\ last_error' = r.err
                    /\ native_value' = IF IsOk(r) THEN r.v ELSE None
           ELSE /\ evaluated' = FALSE
                /\ last_error' = "none"
                /\ native_value' = None

(* async_update.  evaluated: _calculate_value was called; last_error: the  *)
(* exception that left async_update, "none" if it returned.                *)
AsyncUpdate ==
    LET t == ReadSource(temp_state)
        h == ReadSource(humidity_state)
    IN  /\ temperature' = t
        /\ humidity' = h
        /\ IF t.some /\ h.some
           THEN LET r == CalculatedValues[sensor_type, t.v, h.v]
                IN  /\ evaluated' = TRUE
                    /\ last_error' = r.err
                    /\ native_value' = IF IsOk(r) THEN r.v ELSE native_value
           ELSE /\ evaluated' = FALSE
                /\ last_error' = "none"
                /\ native_value' = None

(* extra_state_attributes: the dict, as a function on its keys *)
ExtraStateAttributes ==
    LET attrs == [k \in {"temperature", "humidity"} |->
                     IF k = "temperature" THEN temperature ELSE humidity]
    IN  IF sensor_type = "frost_risk_level" /\ native_value.some
        THEN LET level == IntOfFloat(native_value.v)
             IN  IF level \in DOMAIN FROST_RISK_LEVELS
                 THEN [k \in {"temperature", "humidity", "description_en",
                              "description_nl"} |->
                          IF k = "description_en" THEN FROST_RISK_LEVELS[level].en
                          ELSE IF k = "description_nl" THEN FROST_RISK_LEVELS[level].nl
                          ELSE attrs[k]]
                 ELSE attrs
        ELSE attrs

Init ==
    /\ sensor_type \in SensorTypes
    /\ temp_state \in SourceStates(SrcTemps)
    /\ humidity_state \in SourceStates(SrcHums)
    /\ temperature = None
    /\ humidity = None
    /\ native_value = None
    /\ phase = "created"
    /\ subscribed = FALSE
    /\ pending = 0
    /\ evaluated = FALSE
    /\ last_error = "none"
    /\ table = NoTable
    /\ call = NoCall

(* async_setup_entry, line 68: the update before the entity is added *)
UpdateBeforeAdd ==
    /\ phase = "created"
    /\ AsyncUpdate
    /\ phase' = IF last_error' = "none" THEN "updated" ELSE "aborted"
    /\ UNCHANGED <<sensor_type, temp_state, humidity_state, subscribed, pending,
                   table, call>>

(* async_added_to_hass: the listener is registered, then async_update *)
AsyncAddedToHass ==
    /\ phase = "updated"
    /\ subscribed' = TRUE
    /\ AsyncUpdate
    /\ phase' = "added"
    /\ UNCHANGED <<sensor_type, temp_state, humidity_state, pending, table, call>>

(* A source entity's state changes; async_sensor_state_listener, if        *)
(* registered, schedules a forced update.                                  *)
SourceStateChanged ==
    /\ subscribed => pending < MaxPending
    /\ \/ /\ temp_state' \in SourceStates(SrcTemps) \ {temp_state}
          /\ UNCHANGED humidity_state
       \/ /\ humidity_state' \in SourceStates(SrcHums) \ {humidity_state}
          /\ UNCHANGED temp_state
    /\ pending' = IF subscribed THEN pending + 1 ELSE pending
    /\ UNCHANGED <<sensor_type, temperature, humidity, native_value, phase,
                   subscribed, evaluated, last_error, table, call>>

(* A scheduled forced update runs. *)
ScheduledUpdate ==
    /\ pending > 0
    /\ pending' = pending - 1
    /\ AsyncUpdate
    /\ UNCHANGED <<sensor_type, temp_state, humidity_state, phase, subscribed,
                   table, call>>

(* The entity is removed: async_on_remove unregisters the listener. *)
Remove ==
    /\ phase = "added"
    /\ phase' = "removed"
    /\ subscribed' = FALSE
    /\ UNCHANGED <<sensor_type, temp_state, humidity_state, temperature, humidity,
                   native_value, pending, evaluated, last_error, table, call>>

Next ==
    \/ UpdateBeforeAdd
    \/ AsyncAddedToHass
    \/ SourceStateChanged
    \/ ScheduledUpdate
    \/ Remove

Spec == Init /\ [][Next]_vars

(* A source state async_update cannot read as a number. *)
Unreadable(st) == st.kind \in {"missing", "unknown", "unavailable", "text"}

(* A step in which async_update runs. *)
UpdateStep == UpdateBeforeAdd \/ AsyncAddedToHass \/ ScheduledUpdate

(***************************************************************************)
(* C8: after any async_update, if the temperature source or the humidity   *)
(* source has no state, is unknown or unavailable, or does not parse as a  *)
(* number, then no formula was evaluated, the stored reading of that       *)
(* source is None and the native value is None.                            *)
(***************************************************************************)
C8_UnreadableSourceSkipsEvaluation ==
    [][UpdateStep =>
          /\ Unreadable(temp_state) =>
                 temperature' = None /\ native_value' = None /\ ~evaluated'
          /\ Unreadable(humidity_state) =>
                 humidity' = None /\ native_value' = None /\ ~evaluated']_vars

(* An added sensor, no update pending, whose temperature source holds a    *)
(* text and whose humidity source a number: the last update read them.     *)
C8_Witness ==
    /\ phase = "added"
    /\ pending = 0
    /\ temp_state.kind = "text"
    /\ humidity_state.kind = "num"
    /\ temperature = None
    /\ humidity = Some(humidity_state.v)
    /\ native_value = None
    /\ ~evaluated

(***************************************************************************)
(* C9: whenever the frost-risk sensor has a native value, the level is a   *)
(* key of FROST_RISK_LEVELS and extra_state_attributes holds               *)
(* description_en and description_nl, the labels of that level.            *)
(***************************************************************************)
C9_LabelsPresent ==
    (sensor_type = "frost_risk_level" /\ native_value.some) =>
        /\ IntOfFloat(native_value.v) \in DOMAIN FROST_RISK_LEVELS
        /\ {"description_en", "description_nl"} \subseteq DOMAIN ExtraStateAttributes
        /\ ExtraStateAttributes["description_en"]
               = FROST_RISK_LEVELS[IntOfFloat(native_value.v)].en
        /\ ExtraStateAttributes["description_nl"]
               = FROST_RISK_LEVELS[IntOfFloat(native_value.v)].nl

(* The frost-risk sensor at level 0 (20 degrees), labelled "No Risk". *)
C9_Witness ==
    /\ sensor_type = "frost_risk_level"
    /\ phase = "added"
    /\ native_value = Some(0)
    /\ "description_en" \in DOMAIN ExtraStateAttributes
    /\ ExtraStateAttributes["description_en"] = "No Risk"
    /\ ExtraStateAttributes["description_nl"] = "Geen Risico"

(* The value of the sensor for the present source states: None when a     *)
(* source is unreadable or the formula has no value for the readings.      *)
LatestValue ==
    IF ReadSource(temp_state).some /\ ReadSource(humidity_state).some
    THEN (IF IsOk(CalculatedValues[sensor_type, temp_state.v, humidity_state.v])
          THEN CalculatedValues[sensor_type, temp_state.v, humidity_state.v].v
          ELSE None)
    ELSE None

(***************************************************************************)
(* C10: while the sensor is added, state changes of its sources schedule   *)
(* forced updates, and once every scheduled update has run the sensor      *)
(* shows the readings and the value of the present source states.          *)
(***************************************************************************)
C10_ShowsLatest ==
    (phase = "added" /\ subscribed /\ pending = 0) =>
        /\ temperature = ReadSource(temp_state)
        /\ humidity = ReadSource(humidity_state)
        /\ native_value = LatestValue

(***************************************************************************)
(* C11: when a formula raises inside async_update, the exception leaves    *)
(* async_update with the native value of the previous update, not None,    *)
(* while the stored temperature and humidity are already the new readings. *)
(***************************************************************************)
C11_FailedUpdateKeepsValue ==
    [][(UpdateStep /\ last_error' # "none") =>
          /\ native_value' = native_value
          /\ temperature' = ReadSource(temp_state)
          /\ humidity' = ReadSource(humidity_state)
          /\ temperature'.some /\ humidity'.some
          /\ evaluated']_vars

(* A dew-point sensor whose last update read humidity 0 and failed: it     *)
(* still holds a value, which its stored readings do not give.             *)
C11_Witness ==
    /\ sensor_type = "dew_point"
    /\ phase = "added"
    /\ pending = 0
    /\ last_error = "ValueError"
    /\ humidity = Some(0)
    /\ native_value.some
    /\ native_value # LatestValue

============================================================================
